---- MODULE Spec2Model ----
(***************************************************************************)
(* Model of oca-proxy's authentication core (auth.ts, here                 *)
(* src/unnamed/part_002, and the routes of src/src/config.ts that drive    *)
(* it) and of POST /v1/messages, which turns the upstream OpenAI stream    *)
(* into Anthropic events or into one aggregate message.                    *)
(*                                                                         *)
(* Execution model: Node.js, one thread.  A handler runs without           *)
(* interruption from one `await` to the next; every action below is one    *)
(* such synchronous segment.  The segment that handles the token response  *)
(* (part_002:230-245) is written as two consecutive steps so that the      *)
(* order "cache the access token, then rotate and persist" is visible;     *)
(* `running` holds the turn between the two, and no other handler can      *)
(* start while it is held.  The continuation of getToken() after           *)
(* `await this.refreshPromise` (the finally block) runs in the microtask   *)
(* checkpoint of the turn that settles the refresh, so it belongs to the   *)
(* settling step.                                                          *)
(*                                                                         *)
(* Time is Date.now() in milliseconds.  Refresh tokens, access tokens and  *)
(* PKCE state strings are issued fresh (they are random or server-issued), *)
(* so they are numbered.  The token file is written and removed reliably.  *)
(***************************************************************************)
EXTENDS Integers, Sequences, FiniteSets, TLC

\* ------------------------------------------------------------- bounds ----
NumCallers == 2
MaxRefreshes == 2
MaxTokens == 2
MaxTicks == 1
TickMs == 100000
MaxStates == 2
MaxCallbacks == 2
MaxPkceTicks == 2
PkceTickMs == 600000
MaxLines == 3
MaxInFlight == 1
MaxMessages == 1

\* --------------------------------------------------- program constants ----
SafetyMarginSec == 300
DefaultExpiresIn == 3600

Null == 0

Callers == 1..NumCallers
Tokens == 1..MaxTokens
States == 1..MaxStates

\* a state string that createAuthUrl() never issued
ForgedState == MaxStates + 1

\* expires_in values a token response may carry (0: the field is absent)
ExpiresInChoices == {0, 400}

\* err.response of a failed axios call: status 0 is a failure without a
\* response (network error)
Errors ==
  { [status |-> 0,   error |-> "none"],
    [status |-> 400, error |-> "invalid_grant"],
    [status |-> 400, error |-> "invalid_token"],
    [status |-> 400, error |-> "invalid_request"],
    [status |-> 500, error |-> "invalid_grant"],
    [status |-> 503, error |-> "none"] }

NoErr == [status |-> -1, error |-> "none"]
NoResp == [access_token |-> Null, expires_in |-> 0, refresh_token |-> Null]

VARIABLES
  refreshToken,    \* TokenManager.refreshToken (Null: null)
  accessToken,     \* TokenManager.accessToken
  tokenExpiry,     \* TokenManager.tokenExpiry, ms (Null: null)
  refreshPromise,  \* TokenManager.refreshPromise: id of the refresh it holds
  disk,            \* refresh_token field of TOKEN_FILE (Null: no file)
  inflight,        \* the doRefreshToken() invocations that have not settled
  started,         \* number of doRefreshToken() invocations so far
  callers,         \* the requests that call getToken()
  running,         \* refresh whose response handler holds the turn, or 0
  now,             \* Date.now()
  nextTok,         \* next refresh token the identity provider issues
  saveLog,         \* tokens saveRefreshToken() has been called with
  superseded,      \* refresh tokens replaced by a rotation
  cleared,         \* "no" after a login; else why the token state was cleared
  pkceStates,      \* the pkceStates map: state -> session
  nextState,       \* next state string createAuthUrl() issues
  callbacks,       \* the GET /callback requests awaiting their token exchange
  nCallbacks,      \* number of GET /callback requests so far
  reply,           \* the last page GET /callback answered
  consumed,        \* states whose session a callback has looked up and deleted
  streamRequested, \* req.body.stream === true of the POST /v1/messages
  phase,           \* "idle", "open" (reading the upstream), "ended"
  wire,            \* bytes the upstream has written and no chunk has carried
  sent,            \* the lines the upstream has written
  seen,            \* the lines the line loop has iterated over, as it read them
  buffer,          \* buffer
  contentBlockIndex,  \* contentBlockIndex
  textBlockStarted,   \* textBlockStarted
  currentToolCall,    \* currentToolCall
  emitted,         \* the events written to the client, in order
  fullContent,     \* fullContent
  finishReason,    \* finishReason
  promptTokens,    \* promptTokens
  completionTokens,   \* completionTokens
  response,        \* the body of res.json(), once sent
  clientConnected, \* the client's connection of the POST /v1/messages is up
  configFile,      \* the content of CONFIG_FILE
  proxyConfig,     \* proxyConfig
  httpRequest,     \* the last API request: endpoint, body, outcome of getToken()
  resolved,        \* what resolveModelMapping() returned for it
  upstreamRequest, \* the body posted upstream for it
  httpStatus,      \* the status it was answered with, before any upstream call
  lastWrite,       \* what the last POST /api/config did to proxyConfig
  remote           \* address and X-Forwarded-For of a request under way

tmVars == <<refreshToken, accessToken, tokenExpiry, refreshPromise, disk,
            inflight, started, callers, running, now, nextTok, saveLog,
            superseded, cleared>>

pkceVars ==
  <<pkceStates, nextState, callbacks, nCallbacks, reply, consumed>>

streamVars ==
  <<streamRequested, phase, wire, sent, seen, buffer, contentBlockIndex,
    textBlockStarted, currentToolCall, emitted, fullContent, finishReason,
    promptTokens, completionTokens, response, clientConnected>>

requestVars ==
  <<configFile, proxyConfig, httpRequest, resolved, upstreamRequest,
    httpStatus, lastWrite, remote>>

vars == <<tmVars, pkceVars, streamVars, requestVars>>

\* ---------------------------------------------------------- config.ts ----
loadRefreshToken == disk

saveRefreshToken(token) ==
  /\ disk' = token
  /\ saveLog' = saveLog \cup {token}

keepTokenFile == disk' = disk

clearRefreshToken == disk' = Null

\* ------------------------------------------------------- TokenManager ----
isAuthenticated == refreshToken # Null

Idle == [st |-> "idle", kind |-> "none", tok |-> Null, rid |-> 0]
Waiting(r) == [st |-> "waiting", kind |-> "none", tok |-> Null, rid |-> r]
Done(kind, tok, r) == [st |-> "done", kind |-> kind, tok |-> tok, rid |-> r]

TurnFree == running = 0

ResponseTurnReleased(r) == 0

\* part_002:230-245 contain no await: the handler of the token response keeps
\* the turn from caching the access token to returning it
ResponseTurn(r) == r

MissingRefreshTokenWhenIdle == refreshToken = Null /\ refreshPromise = Null

\* part_002:176
MissingRefreshToken == refreshToken = Null

CacheValidInclusive ==
  /\ accessToken # Null
  /\ tokenExpiry # Null
  /\ tokenExpiry - now >= SafetyMarginSec * 1000

\* part_002:183-185
CacheValid ==
  /\ accessToken # Null
  /\ tokenExpiry # Null
  /\ tokenExpiry - now > SafetyMarginSec * 1000

NoRefreshCheck == FALSE

\* part_002:194
RefreshInFlight == refreshPromise # Null

ExpiresIn(e) == IF e = 0 THEN DefaultExpiresIn ELSE e

setRefreshToken(token) ==
  /\ refreshToken' = token
  /\ accessToken' = Null
  /\ tokenExpiry' = Null
  /\ saveRefreshToken(token)
  /\ cleared' = "no"

clearAuth ==
  /\ refreshToken' = Null
  /\ accessToken' = Null
  /\ tokenExpiry' = Null
  /\ clearRefreshToken

SettleStarterOnly(r, kind, tok) ==
  /\ inflight' = [q \in DOMAIN inflight \ {r} |-> inflight[q]]
  /\ callers' = [c \in Callers |->
                   IF /\ callers[c].st = "waiting" /\ callers[c].rid = r
                      /\ \A d \in Callers :
                           callers[d].st = "waiting" /\ callers[d].rid = r
                             => c <= d
                   THEN Done(kind, tok, r) ELSE callers[c]]
  /\ refreshPromise' = Null

SettleKeepsSlot(r, kind, tok) ==
  /\ inflight' = [q \in DOMAIN inflight \ {r} |-> inflight[q]]
  /\ callers' = [c \in Callers |->
                   IF callers[c].st = "waiting" /\ callers[c].rid = r
                   THEN Done(kind, tok, r) ELSE callers[c]]
  /\ refreshPromise' = refreshPromise

\* the refresh settles: every getToken() awaiting it completes with its
\* outcome, and the finally block of the call that started it empties the slot
Settle(r, kind, tok) ==
  /\ inflight' = [q \in DOMAIN inflight \ {r} |-> inflight[q]]
  /\ callers' = [c \in Callers |->
                   IF callers[c].st = "waiting" /\ callers[c].rid = r
                   THEN Done(kind, tok, r) ELSE callers[c]]
  /\ refreshPromise' = Null

\* getToken() up to its first await
GetToken(c) ==
  /\ TurnFree
  /\ callers[c].st # "waiting"
  /\ IF MissingRefreshToken THEN
       /\ callers' = [callers EXCEPT ![c] = Done("NotAuthenticated", Null, 0)]
       /\ UNCHANGED <<refreshPromise, inflight, started>>
     ELSE IF CacheValid THEN
       /\ callers' = [callers EXCEPT ![c] = Done("token", accessToken, 0)]
       /\ UNCHANGED <<refreshPromise, inflight, started>>
     ELSE IF RefreshInFlight THEN
       /\ callers' = [callers EXCEPT ![c] = Waiting(refreshPromise)]
       /\ UNCHANGED <<refreshPromise, inflight, started>>
     ELSE
       /\ started < MaxRefreshes
       /\ started' = started + 1
       /\ refreshPromise' = started + 1
       /\ inflight' = [q \in DOMAIN inflight \cup {started + 1} |->
                         IF q = started + 1
                         THEN [phase |-> "discovery", sent |-> Null,
                               err |-> NoErr, resp |-> NoResp]
                         ELSE inflight[q]]
       /\ callers' = [callers EXCEPT ![c] = Waiting(started + 1)]
  /\ UNCHANGED <<refreshToken, accessToken, tokenExpiry, disk, running, now,
                 nextTok, saveLog, superseded, cleared, pkceVars, streamVars, requestVars>>

\* the discovery document arrives; doRefreshToken() reads this.refreshToken
\* and posts the refresh_token grant
DiscoveryOk(r) ==
  /\ TurnFree
  /\ r \in DOMAIN inflight
  /\ inflight[r].phase = "discovery"
  /\ IF refreshToken = Null THEN
       \* throw at line 219, caught at 246 with no err.response
       /\ inflight' = [inflight EXCEPT ![r].phase = "catch",
                                       ![r].err = [status |-> 0,
                                                   error |-> "none"]]
       /\ running' = r
     ELSE
       /\ inflight' = [inflight EXCEPT ![r].phase = "post",
                                       ![r].sent = refreshToken]
       /\ running' = 0
  /\ UNCHANGED <<refreshToken, accessToken, tokenExpiry, refreshPromise, disk,
                 started, callers, now, nextTok, saveLog, superseded, cleared,
                 pkceVars, streamVars, requestVars>>

\* axios.get or axios.post rejects
RequestFails(r, e) ==
  /\ TurnFree
  /\ r \in DOMAIN inflight
  /\ inflight[r].phase \in {"discovery", "post"}
  /\ inflight' = [inflight EXCEPT ![r].phase = "catch", ![r].err = e]
  /\ running' = r
  /\ UNCHANGED <<refreshToken, accessToken, tokenExpiry, refreshPromise, disk,
                 started, callers, now, nextTok, saveLog, superseded, cleared,
                 pkceVars, streamVars, requestVars>>

IsInvalidGrantOnly(e) == e.status = 400 /\ e.error = "invalid_grant"

IsInvalidGrantAnyStatus(e) == e.error \in {"invalid_grant", "invalid_token"}

\* part_002:260-263
IsInvalidGrant(e) ==
  /\ e.status = 400
  /\ e.error \in {"invalid_grant", "invalid_token"}

\* the catch block of doRefreshToken()
Catch(r) ==
  /\ running = r
  /\ r \in DOMAIN inflight
  /\ inflight[r].phase = "catch"
  /\ IF IsInvalidGrant(inflight[r].err) THEN
       /\ clearAuth
       /\ cleared' = "expired"
       /\ Settle(r, "AuthExpired", Null)
     ELSE
       /\ Settle(r, "RefreshFailed", Null)
       /\ UNCHANGED <<refreshToken, accessToken, tokenExpiry, disk, cleared>>
  /\ running' = 0
  /\ UNCHANGED <<started, now, nextTok, saveLog, superseded, pkceVars, streamVars, requestVars>>

\* the token response arrives: lines 230-232 cache the access token
PostOk(r, e, rt) ==
  /\ TurnFree
  /\ r \in DOMAIN inflight
  /\ inflight[r].phase = "post"
  /\ rt \in {Null, inflight[r].sent, nextTok}
  /\ rt <= MaxTokens
  /\ nextTok' = IF rt = nextTok THEN nextTok + 1 ELSE nextTok
  /\ accessToken' = r
  /\ tokenExpiry' = now + ExpiresIn(e) * 1000
  /\ inflight' = [inflight EXCEPT
                    ![r].phase = "rotate",
                    ![r].resp = [access_token |-> r, expires_in |-> e,
                                 refresh_token |-> rt]]
  /\ running' = ResponseTurn(r)
  /\ UNCHANGED <<refreshToken, refreshPromise, disk, started, callers, now,
                 saveLog, superseded, cleared, pkceVars, streamVars, requestVars>>

NeverRotate(newRefreshToken) == FALSE

\* part_002:236
ShouldRotate(newRefreshToken) ==
  newRefreshToken # Null /\ newRefreshToken # refreshToken

\* lines 235-245: rotate and persist the refresh token, return the access token
Rotate(r) ==
  /\ running = ResponseTurn(r)
  /\ r \in DOMAIN inflight
  /\ inflight[r].phase = "rotate"
  /\ LET newRefreshToken == inflight[r].resp.refresh_token IN
       IF ShouldRotate(newRefreshToken) THEN
         /\ refreshToken' = newRefreshToken
         /\ saveRefreshToken(newRefreshToken)
         /\ superseded' = IF refreshToken = Null THEN superseded
                          ELSE superseded \cup {refreshToken}
       ELSE
         UNCHANGED <<refreshToken, disk, saveLog, superseded>>
  /\ Settle(r, "token", accessToken)
  /\ running' = 0
  /\ UNCHANGED <<accessToken, tokenExpiry, started, now, nextTok, cleared,
                 pkceVars, streamVars, requestVars>>

\* the OAuth callback stores the refresh token of a completed login
SetRefreshToken ==
  /\ TurnFree
  /\ nextTok <= MaxTokens
  /\ setRefreshToken(nextTok)
  /\ nextTok' = nextTok + 1
  /\ UNCHANGED <<refreshPromise, inflight, started, callers, running, now,
                 superseded, pkceVars, streamVars, requestVars>>

\* GET /logout
ClearAuth ==
  /\ TurnFree
  /\ clearAuth
  /\ cleared' = IF cleared = "expired" THEN "expired" ELSE "logout"
  /\ UNCHANGED <<refreshPromise, inflight, started, callers, running, now,
                 nextTok, saveLog, superseded, pkceVars, streamVars, requestVars>>

Tick ==
  /\ TurnFree
  /\ now + TickMs <= MaxTicks * TickMs
  /\ now' = now + TickMs
  /\ UNCHANGED <<refreshToken, accessToken, tokenExpiry, refreshPromise, disk,
                 inflight, started, callers, running, nextTok, saveLog,
                 superseded, cleared, pkceVars, streamVars, requestVars>>

\* --------------------------------------------------------------- PKCE ----
PkceTtlMs == 10 * 60 * 1000

NoSession == [code_verifier |-> Null, created_at |-> -1]

cleanupAllStates(m) == [s \in {} |-> NoSession]

\* the map without the sessions created before the cutoff
cleanupExpiredStates(m) ==
  LET cutoff == now - PkceTtlMs
      kept == {s \in DOMAIN m : ~(m[s].created_at < cutoff)}
  IN [s \in kept |-> m[s]]

getPkceState(state) ==
  IF state \in DOMAIN pkceStates THEN pkceStates[state] ELSE NoSession

keepPkceState(m, state) == m

removePkceState(m, state) == [s \in DOMAIN m \ {state} |-> m[s]]

\* GET /login: createAuthUrl() sweeps, then stores a session under a new state
Login ==
  /\ TurnFree
  /\ nextState <= MaxStates
  /\ LET swept == cleanupExpiredStates(pkceStates) IN
       pkceStates' = [s \in DOMAIN swept \cup {nextState} |->
                        IF s = nextState
                        THEN [code_verifier |-> nextState, created_at |-> now]
                        ELSE swept[s]]
  /\ nextState' = nextState + 1
  /\ UNCHANGED <<requestVars, streamVars, tmVars, callbacks, nCallbacks, reply, consumed>>

\* the page GET /callback answers request `id` with
Reply(id, code, state, error, status) ==
  [id |-> id, code |-> code, state |-> state, error |-> error,
   status |-> status]

NoReply == Reply(0, FALSE, Null, FALSE, "none")

Without(f, i) == [j \in DOMAIN f \ {i} |-> f[j]]

\* GET /callback up to the await of exchangeCodeForTokens()
Callback(code, state, error) ==
  /\ TurnFree
  /\ nCallbacks < MaxCallbacks
  /\ nCallbacks' = nCallbacks + 1
  /\ LET id == nCallbacks + 1 IN
       IF error THEN
         /\ reply' = Reply(id, code, state, error, "OAuthError")
         /\ UNCHANGED <<pkceStates, callbacks, consumed>>
       ELSE IF ~code \/ state = Null THEN
         /\ reply' = Reply(id, code, state, error, "MissingParam")
         /\ UNCHANGED <<pkceStates, callbacks, consumed>>
       ELSE IF getPkceState(state) = NoSession THEN
         /\ reply' = Reply(id, code, state, error, "InvalidOrExpiredState")
         /\ UNCHANGED <<pkceStates, callbacks, consumed>>
       ELSE
         /\ pkceStates' = removePkceState(pkceStates, state)
         /\ consumed' = consumed \cup {state}
         /\ callbacks' = [j \in DOMAIN callbacks \cup {id} |->
                            IF j = id
                            THEN [state |-> state, phase |-> "discovery",
                                  code_verifier |->
                                    getPkceState(state).code_verifier]
                            ELSE callbacks[j]]
         /\ UNCHANGED reply
  /\ UNCHANGED <<requestVars, streamVars, tmVars, nextState>>

\* exchangeCodeForTokens(): the discovery document arrives, the code is posted
ExchangeDiscoveryOk(i) ==
  /\ TurnFree
  /\ i \in DOMAIN callbacks
  /\ callbacks[i].phase = "discovery"
  /\ callbacks' = [callbacks EXCEPT ![i].phase = "post"]
  /\ UNCHANGED <<requestVars, streamVars, tmVars, pkceStates, nextState, nCallbacks, reply, consumed>>

ExchangeFailsClearsAuth(i) ==
  /\ TurnFree
  /\ i \in DOMAIN callbacks
  /\ callbacks' = Without(callbacks, i)
  /\ reply' = Reply(i, TRUE, callbacks[i].state, FALSE, "ExchangeFailed")
  /\ clearAuth
  /\ UNCHANGED <<refreshPromise, inflight, started, callers, running, now,
                 nextTok, saveLog, superseded, cleared, requestVars,
                 streamVars, pkceStates, nextState, nCallbacks, consumed>>

\* either request of the exchange rejects: the handler answers 500
ExchangeFails(i) ==
  /\ TurnFree
  /\ i \in DOMAIN callbacks
  /\ callbacks' = Without(callbacks, i)
  /\ reply' = Reply(i, TRUE, callbacks[i].state, FALSE, "ExchangeFailed")
  /\ UNCHANGED <<requestVars, streamVars, tmVars, pkceStates, nextState, nCallbacks, consumed>>

\* the token response arrives: config.ts:292-304
ExchangeOk(i, hasRefreshToken) ==
  /\ TurnFree
  /\ i \in DOMAIN callbacks
  /\ callbacks[i].phase = "post"
  /\ callbacks' = Without(callbacks, i)
  /\ IF ~hasRefreshToken THEN
       /\ reply' = Reply(i, TRUE, callbacks[i].state, FALSE, "NoRefreshToken")
       /\ UNCHANGED tmVars
     ELSE
       /\ nextTok <= MaxTokens
       /\ setRefreshToken(nextTok)
       /\ nextTok' = nextTok + 1
       /\ reply' = Reply(i, TRUE, callbacks[i].state, FALSE, "ok")
       /\ UNCHANGED <<refreshPromise, inflight, started, callers, running,
                      now, superseded>>
  /\ UNCHANGED <<pkceStates, nextState, nCallbacks, consumed, streamVars,
                 requestVars>>

TickPkce ==
  /\ TurnFree
  /\ now + PkceTickMs <= MaxPkceTicks * PkceTickMs
  /\ now' = now + PkceTickMs
  /\ UNCHANGED <<refreshToken, accessToken, tokenExpiry, refreshPromise, disk,
                 inflight, started, callers, running, nextTok, saveLog,
                 superseded, cleared, pkceVars, streamVars, requestVars>>

\* ================================================== POST /v1/messages ====
\* The upstream answers with an OpenAI chat-completions stream: lines
\* "data: <json>", "data: [DONE]", empty lines.  A line is written on the
\* wire as a head (everything but the characters of delta.content), then
\* the UTF-8 bytes of delta.content, then "\n".  The response stream hands
\* the bytes over in chunks cut at arbitrary byte positions.

NoUsage == << >>
Usage(p, c) == <<[prompt_tokens |-> p, completion_tokens |-> c]>>
NoToolCalls == << >>
ToolCallDelta(id, name, arguments) ==
  [id |-> id, name |-> name, arguments |-> arguments]

\* one upstream line; kind "data" is a line "data: <json>" whose json parses
UpstreamLine(kind, content, tool_calls, finish_reason, usage) ==
  [kind |-> kind, content |-> content, tool_calls |-> tool_calls,
   finish_reason |-> finish_reason, usage |-> usage]

TextDelta(content) == UpstreamLine("data", content, NoToolCalls, "", NoUsage)
ToolDelta(tc, content) == UpstreamLine("data", content, <<tc>>, "", NoUsage)
FinishDelta(reason, usage) ==
  UpstreamLine("data", << >>, NoToolCalls, reason, usage)
UsageOnly(usage) == UpstreamLine("data", << >>, NoToolCalls, "", usage)
DoneLine == UpstreamLine("done", << >>, NoToolCalls, "", NoUsage)
BadLine == UpstreamLine("bad", << >>, NoToolCalls, "", NoUsage)
BlankLine == UpstreamLine("blank", << >>, NoToolCalls, "", NoUsage)

\* the lines the upstream may write; "e_acute" is a two-byte character
UpstreamLines ==
  { TextDelta(<<"a">>),
    TextDelta(<<"e_acute">>),
    ToolDelta(ToolCallDelta("call_1", "get_weather", ""), << >>),
    ToolDelta(ToolCallDelta("", "", "x"), << >>),
    ToolDelta(ToolCallDelta("", "", "y"), << >>),
    ToolDelta(ToolCallDelta("call_2", "get_time", ""), <<"b">>),
    FinishDelta("stop", NoUsage),
    FinishDelta("tool_calls", NoUsage),
    FinishDelta("length", Usage(9, 5)),
    UsageOnly(Usage(8, 3)),
    DoneLine,
    BadLine,
    BlankLine }

\* what travels: a head, one byte of content, or the newline
HeadUnit(line) == [k |-> "head", c |-> "", p |-> <<[line EXCEPT !.content = << >>]>>]
ByteUnit(b) == [k |-> "byte", c |-> b, p |-> << >>]
NewLine == [k |-> "nl", c |-> "", p |-> << >>]

\* UTF-8: "e_acute" (U+00E9) is the bytes C3 A9, an ASCII character is itself
RECURSIVE Utf8Encode(_)
Utf8Encode(text) ==
  IF text = << >> THEN << >>
  ELSE (IF Head(text) = "e_acute" THEN <<ByteUnit("C3"), ByteUnit("A9")>>
        ELSE <<ByteUnit(Head(text))>>) \o Utf8Encode(Tail(text))

WireBytes(line) ==
  IF line.kind = "blank" THEN <<NewLine>>
  ELSE <<HeadUnit(line)>> \o Utf8Encode(line.content) \o <<NewLine>>

\* chunk.toString(): each chunk is decoded on its own; a lead byte without
\* its continuation byte in the same chunk, and a continuation byte without
\* its lead byte, each become U+FFFD
RECURSIVE toString(_)
toString(chunk) ==
  IF chunk = << >> THEN << >>
  ELSE IF Head(chunk).c = "C3" THEN
         IF Len(chunk) >= 2 /\ chunk[2].c = "A9"
         THEN <<ByteUnit("e_acute")>> \o toString(Tail(Tail(chunk)))
         ELSE <<ByteUnit("U+FFFD")>> \o toString(Tail(chunk))
  ELSE IF Head(chunk).c = "A9" THEN
         <<ByteUnit("U+FFFD")>> \o toString(Tail(chunk))
  ELSE <<Head(chunk)>> \o toString(Tail(chunk))

\* buffer.split("\n"): the pieces between newlines; the last piece is what
\* follows the last newline
RECURSIVE split(_, _)
split(text, piece) ==
  IF text = << >> THEN <<piece>>
  ELSE IF Head(text) = NewLine THEN <<piece>> \o split(Tail(text), << >>)
  ELSE split(Tail(text), Append(piece, Head(text)))

AllButLast(s) == SubSeq(s, 1, Len(s) - 1)
Last(s) == s[Len(s)]

\* what the line loop makes of one piece: line.startsWith("data: "),
\* line.slice(6), JSON.parse
Chars(units) == [i \in 1..Len(units) |-> units[i].c]
ReadLine(piece) ==
  IF piece = << >> THEN BlankLine
  ELSE [Head(piece).p[1] EXCEPT !.content = Chars(Tail(piece))]

ReadLines(pieces) == [i \in 1..Len(pieces) |-> ReadLine(pieces[i])]

\* ---------------------------------------------- streamAnthropicResponse ----
\* the events of the Anthropic stream; a field an event does not carry
\* keeps the value it has in NoEvent
NoEvent ==
  [type |-> "", index |-> -1, block |-> "", id |-> "", name |-> "",
   text |-> << >>, partial_json |-> "", stop_reason |-> "",
   output_tokens |-> -1]

message_start ==
  [NoEvent EXCEPT !.type = "message_start", !.output_tokens = 0]
content_block_start(index, block, id, name) ==
  [NoEvent EXCEPT !.type = "content_block_start", !.index = index,
                  !.block = block, !.id = id, !.name = name]
text_delta(index, text) ==
  [NoEvent EXCEPT !.type = "content_block_delta", !.index = index,
                  !.block = "text_delta", !.text = text]
input_json_delta(index, partial_json) ==
  [NoEvent EXCEPT !.type = "content_block_delta", !.index = index,
                  !.block = "input_json_delta", !.partial_json = partial_json]
content_block_stop(index) ==
  [NoEvent EXCEPT !.type = "content_block_stop", !.index = index]
message_delta(stop_reason, output_tokens) ==
  [NoEvent EXCEPT !.type = "message_delta", !.stop_reason = stop_reason,
                  !.output_tokens = output_tokens]
message_stop == [NoEvent EXCEPT !.type = "message_stop"]

NoToolCall == << >>

\* the locals of the generator, the events it has yielded in `out`, and
\* whether it has returned
Generator(index, textOpen, toolCall, out, returned) ==
  [contentBlockIndex |-> index, textBlockStarted |-> textOpen,
   currentToolCall |-> toolCall, out |-> out, returned |-> returned]

Yield(g, event) == [g EXCEPT !.out = Append(@, event)]

\* config.ts:834-860
startToolUse(g, toolCallDelta) ==
  LET closed ==
        IF g.textBlockStarted
        THEN [Yield(g, content_block_stop(g.contentBlockIndex))
                EXCEPT !.contentBlockIndex = @ + 1,
                       !.textBlockStarted = FALSE]
        ELSE g
  IN  [Yield(closed, content_block_start(closed.contentBlockIndex, "tool_use",
                                         toolCallDelta.id, toolCallDelta.name))
         EXCEPT !.currentToolCall =
                  <<[id |-> toolCallDelta.id, name |-> toolCallDelta.name,
                     input |-> << >>]>>]

\* config.ts:862-872
bufferArguments(g, arguments) ==
  [g EXCEPT !.currentToolCall[1].input = Append(@, arguments)]

appendArguments(g, arguments) ==
  [Yield(g, input_json_delta(g.contentBlockIndex, arguments))
     EXCEPT !.currentToolCall[1].input = Append(@, arguments)]

\* one iteration of `for (const toolCallDelta of delta.tool_calls)`
toolCallStep(g, toolCallDelta) ==
  LET g1 == IF toolCallDelta.id # "" THEN startToolUse(g, toolCallDelta)
            ELSE g
  IN  IF toolCallDelta.arguments # "" /\ g1.currentToolCall # NoToolCall
      THEN appendArguments(g1, toolCallDelta.arguments)
      ELSE g1

RECURSIVE toolCalls(_, _)
toolCalls(g, deltas) ==
  IF deltas = << >> THEN g
  ELSE toolCalls(toolCallStep(g, Head(deltas)), Tail(deltas))

\* config.ts:876-891
textContent(g, content) ==
  LET opened ==
        IF ~g.textBlockStarted
        THEN [Yield(g, content_block_start(g.contentBlockIndex, "text", "", ""))
                EXCEPT !.textBlockStarted = TRUE]
        ELSE g
  IN  Yield(opened, text_delta(opened.contentBlockIndex, content))

\* config.ts:901-907
stopReasonAnthropic(finish_reason) ==
  IF finish_reason = "tool_calls" THEN "tool_use"
  ELSE IF finish_reason = "stop" THEN "end_turn"
  ELSE IF finish_reason = "length" THEN "max_tokens"
  ELSE finish_reason

stopReason(finish_reason) ==
  IF finish_reason = "tool_calls" THEN "tool_use"
  ELSE IF finish_reason = "stop" THEN "end_turn"
  ELSE finish_reason

\* config.ts:909-913: usage.completion_tokens || 0 of this line's data.usage
outputTokens(line) ==
  IF line.usage = NoUsage THEN 0 ELSE line.usage[1].completion_tokens

\* config.ts:894-917; the generator does not return here
finish(g, line) ==
  Yield(Yield(Yield(g, content_block_stop(g.contentBlockIndex)),
              message_delta(stopReason(line.finish_reason),
                            outputTokens(line))),
        message_stop)

\* the catch block, config.ts:918-920
abortOnUnparseable(g) == [g EXCEPT !.returned = TRUE]

skipUnparseable(g) == g

\* one iteration of `for (const line of lines)`, config.ts:808-921
streamLine(g, line) ==
  IF line.kind = "blank" THEN g
  ELSE IF line.kind = "done"
    THEN [Yield(g, message_stop) EXCEPT !.returned = TRUE]
  ELSE IF line.kind = "bad" THEN skipUnparseable(g)
  ELSE LET g1 == IF line.tool_calls # NoToolCalls
                   THEN toolCalls(g, line.tool_calls)
                 ELSE IF line.content # << >>
                   THEN textContent(g, line.content)
                 ELSE g
       IN  IF line.finish_reason # "" THEN finish(g1, line) ELSE g1

RECURSIVE streamLines(_, _)
streamLines(g, lines) ==
  IF lines = << >> \/ g.returned THEN g
  ELSE streamLines(streamLine(g, Head(lines)), Tail(lines))

\* the lines a loop that leaves at "[DONE]" iterates over
RECURSIVE UpToDone(_)
UpToDone(lines) ==
  IF lines = << >> THEN << >>
  ELSE IF Head(lines).kind = "done" THEN <<Head(lines)>>
  ELSE <<Head(lines)>> \o UpToDone(Tail(lines))

\* ------------------------------------------- the non-streaming branch ----
Aggregate(content, reason, prompt, completion) ==
  [fullContent |-> content, finishReason |-> reason,
   promptTokens |-> prompt, completionTokens |-> completion]

\* config.ts:986-999
collectLine(a, line) ==
  IF line.kind # "data" THEN a
  ELSE [a EXCEPT
          !.fullContent = @ \o line.content,
          !.finishReason =
             IF line.finish_reason = "" THEN @
             ELSE IF line.finish_reason = "stop" THEN "end_turn"
             ELSE line.finish_reason,
          !.promptTokens =
             IF line.usage = NoUsage THEN @ ELSE line.usage[1].prompt_tokens,
          !.completionTokens =
             IF line.usage = NoUsage THEN @
             ELSE line.usage[1].completion_tokens]

\* `for (const line of lines)`, config.ts:977-1000: "[DONE]" breaks out of
\* this loop only
RECURSIVE collectLines(_, _)
collectLines(a, lines) ==
  IF lines = << >> \/ Head(lines).kind = "done" THEN a
  ELSE collectLines(collectLine(a, Head(lines)), Tail(lines))

NoResponse == << >>

\* config.ts:1003-1011
Message(a) ==
  <<[text |-> a.fullContent, stop_reason |-> a.finishReason,
     input_tokens |-> a.promptTokens, output_tokens |-> a.completionTokens]>>

\* ------------------------------------------------------------ actions ----
\* POST /v1/messages up to the first read of the upstream response:
\* config.ts:940-953 (streaming, with the message_start of 785-801) and
\* 959-970
OpenStream(stream) ==
  /\ phase = "idle"
  /\ phase' = "open"
  /\ streamRequested' = stream
  /\ buffer' = << >>
  /\ contentBlockIndex' = 0
  /\ textBlockStarted' = FALSE
  /\ currentToolCall' = NoToolCall
  /\ emitted' = IF stream THEN <<message_start>> ELSE << >>
  /\ fullContent' = << >>
  /\ finishReason' = "end_turn"
  /\ promptTokens' = 0
  /\ completionTokens' = 0
  /\ UNCHANGED <<wire, sent, seen, response, clientConnected, tmVars,
                 pkceVars, requestVars>>

\* the upstream writes one more line, once all but MaxInFlight of the
\* bytes it wrote before have been read
UpstreamWrite(line) ==
  /\ phase = "open"
  /\ Len(sent) < MaxLines
  /\ Len(wire) <= MaxInFlight
  /\ sent' = Append(sent, line)
  /\ wire' = wire \o WireBytes(line)
  /\ UNCHANGED <<streamRequested, phase, seen, buffer, contentBlockIndex,
                 textBlockStarted, currentToolCall, emitted, fullContent,
                 finishReason, promptTokens, completionTokens, response,
                 clientConnected, tmVars, pkceVars, requestVars>>

\* one iteration of `for await (const chunk of ...)` over a chunk of the
\* next n bytes: config.ts:803-922 when streaming, 972-1001 otherwise
Chunk(n) ==
  /\ phase = "open"
  /\ n \in 1..Len(wire)
  /\ LET pieces == split(buffer \o toString(SubSeq(wire, 1, n)), << >>)
         lines == ReadLines(AllButLast(pieces))
         g == streamLines(Generator(contentBlockIndex, textBlockStarted,
                                    currentToolCall, emitted, FALSE), lines)
         a == collectLines(Aggregate(fullContent, finishReason, promptTokens,
                                     completionTokens), lines)
     IN  /\ buffer' = Last(pieces)
         /\ seen' = seen \o UpToDone(lines)
         /\ IF streamRequested THEN
              /\ contentBlockIndex' = g.contentBlockIndex
              /\ textBlockStarted' = g.textBlockStarted
              /\ currentToolCall' = g.currentToolCall
              /\ emitted' = g.out
              /\ phase' = IF g.returned THEN "ended" ELSE "open"
              /\ UNCHANGED <<fullContent, finishReason, promptTokens,
                             completionTokens>>
            ELSE
              /\ fullContent' = a.fullContent
              /\ finishReason' = a.finishReason
              /\ promptTokens' = a.promptTokens
              /\ completionTokens' = a.completionTokens
              /\ UNCHANGED <<contentBlockIndex, textBlockStarted,
                             currentToolCall, emitted, phase>>
  /\ wire' = SubSeq(wire, n + 1, Len(wire))
  /\ UNCHANGED <<streamRequested, sent, response, clientConnected, tmVars,
                 pkceVars, requestVars>>

\* the upstream response ends: the generator finishes and res.end() runs
\* (config.ts:922, 956), or res.json() sends the aggregate (config.ts:1003)
UpstreamEnd ==
  /\ phase = "open"
  /\ wire = << >>
  /\ phase' = "ended"
  /\ response' = IF streamRequested THEN NoResponse
                 ELSE Message(Aggregate(fullContent, finishReason,
                                        promptTokens, completionTokens))
  /\ UNCHANGED <<streamRequested, wire, sent, seen, buffer, contentBlockIndex,
                 textBlockStarted, currentToolCall, emitted, fullContent,
                 finishReason, promptTokens, completionTokens,
                 clientConnected, tmVars, pkceVars, requestVars>>

\* the client closes its connection while the response is being written.
\* The handler registers no listener for it and passes no abort signal to
\* the upstream request (config.ts:942-956): none of its state changes
ClientDisconnect ==
  /\ phase = "open"
  /\ clientConnected
  /\ clientConnected' = FALSE
  /\ UNCHANGED <<streamRequested, phase, wire, sent, seen, buffer,
                 contentBlockIndex, textBlockStarted, currentToolCall, emitted,
                 fullContent, finishReason, promptTokens, completionTokens,
                 response, tmVars, pkceVars, requestVars>>

\* ============================================ configuration and models ====
\* an optional string that is not there (undefined)
Absent == ""

\* a model name: "oca/gpt-4.1" is Model("oca", "gpt-4.1"), "gpt-4" is
\* Model("", "gpt-4")
Model(ns, id) == [ns |-> ns, id |-> id]
NoModel == Model("", "")

DEFAULT_OCA_MODEL == Model("oca", "gpt-4.1")
DefaultAnthropicModel == Model("", "claude-3-5-sonnet-20241022")

\* the names a request may carry or the mapping table may have an entry for
ModelNames ==
  {NoModel, DEFAULT_OCA_MODEL, Model("", "gpt-4"), DefaultAnthropicModel}

\* an entry of model_mapping: a string, or a {target, reasoning_effort} object
NoMapping == << >>
StringMapping(target) ==
  <<[type |-> "string", target |-> target, reasoning_effort |-> Absent]>>
ObjectMapping(target, reasoning_effort) ==
  <<[type |-> "object", target |-> target,
     reasoning_effort |-> reasoning_effort]>>

MappingTables ==
  { [m \in ModelNames |-> NoMapping],
    [m \in ModelNames |->
       IF m \in {Model("", "gpt-4"), DEFAULT_OCA_MODEL}
       THEN StringMapping(Model("oca", "gpt-5")) ELSE NoMapping],
    [m \in ModelNames |->
       IF m \in {Model("", "gpt-4"), DEFAULT_OCA_MODEL}
       THEN ObjectMapping(Model("oca", "gpt-5"), "high") ELSE NoMapping] }

\* the configuration files the proxy may be started with
ConfigFiles ==
  [model_mapping : MappingTables,
   default_model : {NoModel, Model("oca", "llama-4")},
   default_reasoning_effort : {Absent, "medium"}]

EmptyConfigFile ==
  [model_mapping |-> [m \in ModelNames |-> NoMapping],
   default_model |-> NoModel, default_reasoning_effort |-> Absent]

\* config.ts:19-29
readUserConfig == configFile

\* config.ts:66-80: the object returned has no default_reasoning_effort
loadProxyConfig ==
  [model_mapping |-> readUserConfig.model_mapping,
   default_model |-> readUserConfig.default_model,
   default_reasoning_effort |-> Absent]

Resolved(model, reasoning_effort) ==
  [model |-> model, reasoning_effort |-> reasoning_effort]
NotResolved == Resolved(NoModel, Absent)

\* requestModel?.startsWith("oca/")
startsWithOca(requestModel) == requestModel.ns = "oca"

\* config.ts:224-226
resolveDefault ==
  Resolved(IF proxyConfig.default_model # NoModel
           THEN proxyConfig.default_model ELSE DEFAULT_OCA_MODEL,
           proxyConfig.default_reasoning_effort)

\* config.ts:212-221
resolveMapping(mapping) ==
  IF mapping[1].type = "string" THEN Resolved(mapping[1].target, Absent)
  ELSE Resolved(mapping[1].target, mapping[1].reasoning_effort)

\* config.ts:204-227
resolveMappingFirst(requestModel) ==
  IF proxyConfig.model_mapping[requestModel] # NoMapping
  THEN resolveMapping(proxyConfig.model_mapping[requestModel])
  ELSE IF startsWithOca(requestModel) THEN Resolved(requestModel, Absent)
  ELSE resolveDefault

resolveModelMapping(requestModel) ==
  IF startsWithOca(requestModel) THEN Resolved(requestModel, Absent)
  ELSE IF proxyConfig.model_mapping[requestModel] # NoMapping
    THEN resolveMapping(proxyConfig.model_mapping[requestModel])
  ELSE resolveDefault

\* ---------------------------------------------------- anthropicToOpenAI ----
\* A string is the sequence of its characters: "" is << >>.
\* content of an Anthropic message: a string or an array of blocks
StringContent(text) == [type |-> "string", text |-> text, blocks |-> << >>]
ArrayContent(blocks) == [type |-> "array", text |-> << >>, blocks |-> blocks]

TextBlock(text) ==
  [type |-> "text", text |-> text, id |-> Absent, name |-> Absent]
ToolUseBlock(id, name) ==
  [type |-> "tool_use", text |-> << >>, id |-> id, name |-> name]
ToolResultBlock(id, text) ==
  [type |-> "tool_result", text |-> text, id |-> id, name |-> Absent]

InputMessage(role, content) == [role |-> role, content |-> content]

\* the messages a client may send
InputMessages ==
  { InputMessage("user", StringContent(<<"h", "i">>)),
    InputMessage("user", StringContent(<< >>)),
    InputMessage("user", ArrayContent(<< >>)),
    InputMessage("user", ArrayContent(<<TextBlock(<< >>)>>)),
    InputMessage("user", ArrayContent(<<TextBlock(<< >>), TextBlock(<< >>)>>)),
    InputMessage("user", ArrayContent(<<TextBlock(<<"a">>), TextBlock(<<"b">>)>>)),
    InputMessage("assistant", ArrayContent(<<ToolUseBlock("toolu_1", "get_weather")>>)),
    InputMessage("assistant",
                 ArrayContent(<<TextBlock(<<"a">>),
                                ToolUseBlock("toolu_1", "get_weather")>>)),
    InputMessage("user", ArrayContent(<<ToolResultBlock("toolu_1", <<"1">>)>>)) }

RECURSIVE SeqsUpTo(_, _)
SeqsUpTo(S, n) ==
  IF n = 0 THEN {<< >>}
  ELSE LET shorter == SeqsUpTo(S, n - 1)
       IN  shorter \cup {Append(q, x) : q \in shorter, x \in S}

NoTools == << >>
Tool(name) == [name |-> name]

\* tool_choice: absent, the string "auto", the string "any", or the object
\* {type: "tool", name}
ToolChoice(kind, name) == [kind |-> kind, name |-> name]
NoToolChoice == ToolChoice("absent", Absent)

\* the fields of a request body that the proxy looks at; max_tokens 0 is an
\* absent max_tokens, and `tools` holds the array if there is one
Body(model, messages, tools, tool_choice, max_tokens, reasoning_effort) ==
  [model |-> model, messages |-> messages, tools |-> tools,
   tool_choice |-> tool_choice, max_tokens |-> max_tokens,
   reasoning_effort |-> reasoning_effort]

EmptyBody == Body(NoModel, << >>, NoTools, NoToolChoice, 0, Absent)

MaxTokensChoices == {0, 16384, 16385, 50000}

AnthropicBodies ==
  { Body(model, messages, tools, tool_choice, max_tokens, reasoning_effort) :
      model \in {NoModel, DEFAULT_OCA_MODEL, Model("", "gpt-4")},
      messages \in SeqsUpTo(InputMessages, MaxMessages),
      tools \in {NoTools, <<<<Tool("get_weather")>>>>},
      tool_choice \in {NoToolChoice, ToolChoice("auto", Absent),
                       ToolChoice("any", Absent),
                       ToolChoice("tool", "get_weather")},
      max_tokens \in MaxTokensChoices,
      reasoning_effort \in {Absent, "low"} }

\* an entry of the messages of the upstream request
OutputMessage(role, content, tool_calls, tool_call_id) ==
  [role |-> role, content |-> content, tool_calls |-> tool_calls,
   tool_call_id |-> tool_call_id]

\* textParts.join(" ")
RECURSIVE join(_)
join(textParts) ==
  IF textParts = << >> THEN << >>
  ELSE IF Len(textParts) = 1 THEN textParts[1]
  ELSE textParts[1] \o <<" ">> \o join(Tail(textParts))

\* config.ts:696-715, the three things the loop over the blocks collects
textPartsOf(blocks) ==
  LET texts == SelectSeq(blocks, LAMBDA b : b.type = "text")
  IN  [i \in 1..Len(texts) |-> texts[i].text]

toolCallsOf(blocks) ==
  LET uses == SelectSeq(blocks, LAMBDA b : b.type = "tool_use")
  IN  [i \in 1..Len(uses) |-> [id |-> uses[i].id, name |-> uses[i].name]]

toolResultsOf(blocks) ==
  LET results == SelectSeq(blocks, LAMBDA b : b.type = "tool_result")
  IN  [i \in 1..Len(results) |->
         OutputMessage("tool", results[i].text, << >>, results[i].id)]

\* config.ts:689-723: the entries one input message contributes
convertMessage(msg) ==
  IF msg.content.type = "array" THEN
    LET textParts == textPartsOf(msg.content.blocks)
        calls == toolCallsOf(msg.content.blocks)
        content == IF Len(textParts) > 0 THEN join(textParts) ELSE << >>
    IN  toolResultsOf(msg.content.blocks)
        \o (IF content # << >> \/ calls # << >>
            THEN <<OutputMessage(msg.role, content, calls, Absent)>>
            ELSE << >>)
  ELSE <<OutputMessage(msg.role, msg.content.text, << >>, Absent)>>

RECURSIVE convertMessages(_)
convertMessages(messages) ==
  IF messages = << >> THEN << >>
  ELSE convertMessage(Head(messages)) \o convertMessages(Tail(messages))

\* config.ts:742-749
convertTools(tools) ==
  IF tools = NoTools THEN NoTools
  ELSE <<[i \in 1..Len(tools[1]) |->
            [type |-> "function", name |-> tools[1][i].name]]>>

\* config.ts:751-760
convertToolChoice(tc) ==
  IF tc.kind = "tool" THEN ToolChoice("function", tc.name)
  ELSE IF tc.kind = "auto" THEN ToolChoice("auto", Absent)
  ELSE IF tc.kind = "any" THEN ToolChoice("required", Absent)
  ELSE NoToolChoice

\* config.ts:763-765
MaxTokensCeiling == 16384
Min(a, b) == IF a < b THEN a ELSE b
uncappedMaxTokens(max_tokens) == max_tokens

capMaxTokens(max_tokens) ==
  IF max_tokens # 0 THEN Min(max_tokens, MaxTokensCeiling) ELSE 0

\* the body posted upstream
UpstreamBody(model, messages, effort, tools, tool_choice, max_tokens) ==
  [model |-> model, messages |-> messages,
   reasoning_effort |-> effort, tools |-> tools,
   tool_choice |-> tool_choice, max_tokens |-> max_tokens]

NoUpstreamBody ==
  UpstreamBody(NoModel, << >>, Absent, NoTools, NoToolChoice, 0)

\* config.ts:671-774
anthropicToOpenAI(body) ==
  LET r == resolveModelMapping(IF body.model # NoModel THEN body.model
                               ELSE DefaultAnthropicModel)
  IN  UpstreamBody(r.model,
                   convertMessages(body.messages),
                   r.reasoning_effort,
                   convertTools(body.tools),
                   IF body.tools # NoTools
                   THEN convertToolChoice(body.tool_choice)
                   ELSE NoToolChoice,
                   capMaxTokens(body.max_tokens))

\* ------------------------------------------------------ the API routes ----
Endpoints ==
  {"/v1/models", "/v1/chat/completions", "/v1/responses", "/v1/completions",
   "/v1/embeddings", "/v1/messages", "/api/models/full"}

\* what getToken() rejects with: the three errors of part_002:176-178,
\* 266-268 and 271-273, the last also around the error of part_002:219
TokenError(includesNotAuthenticated, includesRefreshTokenExpired) ==
  [includesNotAuthenticated |-> includesNotAuthenticated,
   includesRefreshTokenExpired |-> includesRefreshTokenExpired]

ErrorMessage(outcome) ==
  CASE outcome = "NotAuthenticated" -> TokenError(TRUE, FALSE)
    [] outcome = "AuthExpired" -> TokenError(FALSE, TRUE)
    [] outcome = "RefreshFailed" -> TokenError(FALSE, FALSE)
    [] outcome = "RefreshFailedMissingToken" -> TokenError(TRUE, FALSE)

TokenErrors ==
  {"NotAuthenticated", "AuthExpired", "RefreshFailed",
   "RefreshFailedMissingToken"}

\* the catch block of each route; the errors of getToken() carry no
\* response, so `e.response?.status || 500` is 500
catchStatus(endpoint, e) ==
  IF endpoint = "/v1/models" THEN
    IF e.includesNotAuthenticated THEN 401 ELSE 500
  ELSE IF endpoint \in {"/v1/completions", "/v1/embeddings"} THEN 500
  ELSE IF e.includesNotAuthenticated \/ e.includesRefreshTokenExpired
    THEN 401
  ELSE 500

ApiRequest(endpoint, body, outcome) ==
  [endpoint |-> endpoint, body |-> body, outcome |-> outcome]
NoApiRequest == ApiRequest("", EmptyBody, "")

\* a route whose getToken() rejects
TokenFailure ==
  /\ httpRequest = NoApiRequest
  /\ \E endpoint \in Endpoints, outcome \in TokenErrors :
       /\ httpRequest' = ApiRequest(endpoint, EmptyBody, outcome)
       /\ httpStatus' = catchStatus(endpoint, ErrorMessage(outcome))
  /\ resolved' = NotResolved
  /\ upstreamRequest' = NoUpstreamBody
  /\ UNCHANGED <<configFile, proxyConfig, lastWrite, remote, tmVars, pkceVars,
                 streamVars>>

\* POST /v1/messages with a token, up to the upstream call:
\* config.ts:930-940
Messages ==
  /\ httpRequest = NoApiRequest
  /\ \E body \in AnthropicBodies :
       /\ httpRequest' = ApiRequest("/v1/messages", body, "token")
       /\ resolved' = resolveModelMapping(IF body.model # NoModel
                                          THEN body.model
                                          ELSE DefaultAnthropicModel)
       /\ upstreamRequest' = anthropicToOpenAI(body)
  /\ httpStatus' = 0
  /\ UNCHANGED <<configFile, proxyConfig, lastWrite, remote, tmVars, pkceVars,
                 streamVars>>

\* config.ts:492-498 and 549-555
withResolvedModel(body) ==
  LET r == resolveModelMapping(body.model)
  IN  UpstreamBody(r.model, body.messages,
                   IF r.reasoning_effort # Absent
                      /\ body.reasoning_effort = Absent
                   THEN r.reasoning_effort ELSE body.reasoning_effort,
                   body.tools, body.tool_choice, body.max_tokens)

OpenAIBodies ==
  { Body(model, << >>, NoTools, NoToolChoice, 0, reasoning_effort) :
      model \in ModelNames, reasoning_effort \in {Absent, "low"} }

\* POST /v1/chat/completions and POST /v1/responses with a token, up to the
\* upstream call: config.ts:487-512, 544-591
OpenAI ==
  /\ httpRequest = NoApiRequest
  /\ \E endpoint \in {"/v1/chat/completions", "/v1/responses"},
        body \in OpenAIBodies :
       /\ httpRequest' = ApiRequest(endpoint, body, "token")
       /\ resolved' = resolveModelMapping(body.model)
       /\ upstreamRequest' = withResolvedModel(body)
  /\ httpStatus' = 0
  /\ UNCHANGED <<configFile, proxyConfig, lastWrite, remote, tmVars, pkceVars,
                 streamVars>>

\* ------------------------------------------------- POST /api/config ----
\* a request body without model_mapping
NoTable == << >>

\* config.ts:426-433
mergeConfig(currentConfig, default_model, model_mapping) ==
  [currentConfig EXCEPT
     !.default_model = IF default_model # NoModel THEN default_model ELSE @,
     !.model_mapping = IF model_mapping # NoTable THEN model_mapping ELSE @]

keepConfigInMemory(newConfig) == proxyConfig' = proxyConfig

\* config.ts:437: Object.assign(proxyConfig, newConfig)
reloadConfig(newConfig) == proxyConfig' = newConfig

\* POST /api/config; `saved` is what saveProxyConfig() returns
ConfigWrite ==
  /\ httpRequest = NoApiRequest
  /\ \E default_model \in {NoModel, Model("oca", "llama-4")},
        model_mapping \in {NoTable} \cup MappingTables,
        saved \in BOOLEAN :
       LET newConfig == mergeConfig(loadProxyConfig, default_model,
                                    model_mapping)
       IN  IF saved THEN
             /\ configFile' = newConfig
             /\ reloadConfig(newConfig)
             /\ lastWrite' = IF newConfig = proxyConfig THEN "unchanged"
                             ELSE "changed"
             /\ httpRequest' = ApiRequest("/api/config", EmptyBody, "saved")
             /\ httpStatus' = 200
           ELSE
             /\ UNCHANGED <<configFile, proxyConfig>>
             /\ lastWrite' = "failed"
             /\ httpRequest' =
                  ApiRequest("/api/config", EmptyBody, "not saved")
             /\ httpStatus' = 500
  /\ UNCHANGED <<resolved, upstreamRequest, remote, tmVars, pkceVars,
                 streamVars>>

\* ------------------------------------------- localhost-only middleware ----
Remote(ip, forwarded) == [ip |-> ip, forwarded |-> forwarded]
NoRemote == Remote("none", Absent)

\* config.ts:143-147
allowed == {"::1", "127.0.0.1", "::ffff:127.0.0.1"}

\* req.ip of the requests: the local addresses, another host, none
Addresses == allowed \cup {"10.0.0.7", Absent}

\* the X-Forwarded-For header of the requests (Absent: no header)
ForwardedFor == {Absent, "127.0.0.1", "::1", "10.0.0.7"}

Routes == Endpoints \cup {"/logout", "/api/config"}

\* config.ts:148-156: TRUE when the middleware calls next()
localhostOnly(ip, forwarded) ==
  \/ ip \in allowed
  \/ forwarded \in {"127.0.0.1", "::1"}

\* a request passes the middleware or is answered 403
Incoming ==
  /\ httpRequest = NoApiRequest
  /\ \E ip \in Addresses, forwarded \in ForwardedFor, route \in Routes :
       /\ remote' = Remote(ip, forwarded)
       /\ IF localhostOnly(ip, forwarded) THEN
            /\ httpRequest' = ApiRequest(route, EmptyBody, "next")
            /\ httpStatus' = 0
          ELSE
            /\ httpRequest' = ApiRequest(route, EmptyBody, "forbidden")
            /\ httpStatus' = 403
  /\ UNCHANGED <<configFile, proxyConfig, resolved, upstreamRequest,
                 lastWrite, tmVars, pkceVars, streamVars>>

\* the request has been answered, or handed to the upstream
RequestDone ==
  /\ httpRequest # NoApiRequest
  /\ httpRequest' = NoApiRequest
  /\ httpStatus' = 0
  /\ resolved' = NotResolved
  /\ upstreamRequest' = NoUpstreamBody
  /\ remote' = NoRemote
  /\ UNCHANGED <<configFile, proxyConfig, lastWrite, tmVars, pkceVars,
                 streamVars>>

\* the state of the server once it has started, but for its configuration
InitServer ==
  /\ disk \in {Null, 1}
  /\ refreshToken = loadRefreshToken
  /\ accessToken = Null
  /\ tokenExpiry = Null
  /\ refreshPromise = Null
  /\ inflight = << >>
  /\ started = 0
  /\ callers = [c \in Callers |-> Idle]
  /\ running = 0
  /\ now = 0
  /\ nextTok = 2
  /\ saveLog = {}
  /\ superseded = {}
  /\ cleared = "no"
  /\ pkceStates = << >>
  /\ nextState = 1
  /\ callbacks = << >>
  /\ nCallbacks = 0
  /\ reply = NoReply
  /\ consumed = {}
  /\ streamRequested = FALSE
  /\ phase = "idle"
  /\ wire = << >>
  /\ sent = << >>
  /\ seen = << >>
  /\ buffer = << >>
  /\ contentBlockIndex = 0
  /\ textBlockStarted = FALSE
  /\ currentToolCall = NoToolCall
  /\ emitted = << >>
  /\ fullContent = << >>
  /\ finishReason = "end_turn"
  /\ promptTokens = 0
  /\ completionTokens = 0
  /\ response = NoResponse
  /\ clientConnected = TRUE
  /\ httpRequest = NoApiRequest
  /\ resolved = NotResolved
  /\ upstreamRequest = NoUpstreamBody
  /\ httpStatus = 0
  /\ lastWrite = "none"
  /\ remote = NoRemote

\* the constructor loads the refresh token from the token file; there is no
\* configuration file
Init ==
  /\ InitServer
  /\ configFile = EmptyConfigFile
  /\ proxyConfig = loadProxyConfig

\* the server starts with one of the configuration files and without a
\* token file: config.ts:178
InitRequest ==
  /\ InitServer
  /\ disk = Null
  /\ configFile \in ConfigFiles
  /\ proxyConfig = loadProxyConfig

Next ==
  \/ \E c \in Callers : GetToken(c)
  \/ \E r \in 1..MaxRefreshes : DiscoveryOk(r)
  \/ \E r \in 1..MaxRefreshes, e \in Errors : RequestFails(r, e)
  \/ \E r \in 1..MaxRefreshes : Catch(r)
  \/ \E r \in 1..MaxRefreshes, e \in ExpiresInChoices,
        rt \in Tokens \cup {Null} : PostOk(r, e, rt)
  \/ \E r \in 1..MaxRefreshes : Rotate(r)
  \/ SetRefreshToken
  \/ ClearAuth
  \/ Tick

Spec == Init /\ [][Next]_vars

NextPkce ==
  \/ Login
  \/ \E code \in BOOLEAN, state \in States \cup {Null, ForgedState},
        error \in BOOLEAN : Callback(code, state, error)
  \/ \E i \in 1..MaxCallbacks : ExchangeDiscoveryOk(i)
  \/ \E i \in 1..MaxCallbacks : ExchangeFails(i)
  \/ \E i \in 1..MaxCallbacks, hasRefreshToken \in BOOLEAN :
       ExchangeOk(i, hasRefreshToken)
  \/ ClearAuth
  \/ TickPkce

SpecPkce == Init /\ [][NextPkce]_vars

\* POST /v1/messages with stream: true
NextStream ==
  \/ OpenStream(TRUE)
  \/ \E line \in UpstreamLines : UpstreamWrite(line)
  \/ \E n \in 1..Len(wire) : Chunk(n)
  \/ UpstreamEnd

SpecStream == Init /\ [][NextStream]_vars

\* POST /v1/messages without stream: true
NextCollect ==
  \/ OpenStream(FALSE)
  \/ \E line \in UpstreamLines : UpstreamWrite(line)
  \/ \E n \in 1..Len(wire) : Chunk(n)
  \/ UpstreamEnd

SpecCollect == Init /\ [][NextCollect]_vars

\* POST /v1/messages with stream: true and a client that may go away
NextDisconnect ==
  \/ NextStream
  \/ ClientDisconnect

SpecDisconnect == Init /\ [][NextDisconnect]_vars

\* the API routes, from the request to the upstream call or the error answer
NextRequest ==
  \/ TokenFailure
  \/ Messages
  \/ OpenAI
  \/ RequestDone

SpecRequest == InitRequest /\ [][NextRequest]_vars

\* the routes, the configuration route and the middleware in front of them
NextServer ==
  \/ NextRequest
  \/ ConfigWrite
  \/ Incoming

SpecServer == InitRequest /\ [][NextServer]_vars

\* ======================================================= TokenManager ====

\* C1: in every reachable state at most one refresh operation
\* (doRefreshToken network exchange) is outstanding.
C1_AtMostOneRefresh == Cardinality(DOMAIN inflight) <= 1

\* a refresh is waiting for the token endpoint, a login replaced the refresh
\* token meanwhile, and every caller is attached to that one refresh
C1_Witness ==
  \E r \in DOMAIN inflight :
    /\ inflight[r].phase = "post"
    /\ refreshToken # Null
    /\ inflight[r].sent # refreshToken
    /\ \A c \in Callers : callers[c] = Waiting(r)

\* C2: a getToken() that finds a refresh token and no valid cached token
\* while a refresh is pending starts no further network exchange and attaches
\* to the pending one; when a refresh settles, every caller attached to it
\* completes, all with the same outcome: the access token of its response,
\* or the same failure.
C2_CoalescedRefresh ==
  [][ /\ \A c \in Callers :
           (callers[c].st # "waiting" /\ callers'[c].st = "waiting") =>
             /\ callers'[c].rid \in DOMAIN inflight'
             /\ \A d \in Callers :
                  callers'[d].st = "waiting" => callers'[d].rid = callers'[c].rid
             /\ DOMAIN inflight # {} =>
                  (started' = started /\ inflight' = inflight)
             /\ DOMAIN inflight = {} => started' = started + 1
      /\ \A r \in DOMAIN inflight \ DOMAIN inflight' :
           /\ \A c \in Callers :
                callers[c] = Waiting(r) =>
                  /\ callers'[c].st = "done"
                  /\ callers'[c].rid = r
                  /\ callers'[c].kind \in {"token", "AuthExpired", "RefreshFailed"}
                  /\ callers'[c].kind = "token" =>
                       /\ inflight[r].phase = "rotate"
                       /\ callers'[c].tok = inflight[r].resp.access_token
                  /\ callers'[c].kind # "token" => callers'[c].tok = Null
           /\ \A c, d \in Callers :
                (callers[c] = Waiting(r) /\ callers[d] = Waiting(r)) =>
                  callers'[c] = callers'[d]
    ]_vars

\* one refresh was started and both callers completed with its access token
C2_Witness ==
  /\ started = 1
  /\ DOMAIN inflight = {}
  /\ \A c \in Callers : callers[c] = Done("token", 1, 1)

\* C3: when a refresh fails with HTTP 400 and error invalid_grant or
\* invalid_token, the refresh token, the cached access token and its expiry
\* are cleared in memory and in the token file, the waiting getToken() calls
\* fail with the auth-expired error, and isAuthenticated() stays false until
\* setRefreshToken() is called.
C3_InvalidGrantClearsAuth ==
  [][ /\ \A r \in DOMAIN inflight :
           ( /\ inflight[r].phase = "catch"
             /\ inflight[r].err.status = 400
             /\ inflight[r].err.error \in {"invalid_grant", "invalid_token"}
             /\ r \notin DOMAIN inflight' ) =>
             /\ refreshToken' = Null
             /\ accessToken' = Null
             /\ tokenExpiry' = Null
             /\ disk' = Null
             /\ cleared' = "expired"
             /\ \A c \in Callers :
                  callers[c] = Waiting(r) =>
                    callers'[c] = Done("AuthExpired", Null, r)
      /\ cleared' = "expired" => refreshToken' = Null
    ]_vars

\* a caller got the auth-expired error, and a later getToken() found the
\* manager unauthenticated
C3_Witness ==
  /\ cleared = "expired"
  /\ refreshToken = Null
  /\ disk = Null
  /\ \E c, d \in Callers :
       /\ callers[c].kind = "AuthExpired"
       /\ callers[d].kind = "NotAuthenticated"

\* C4: when a refresh fails for any reason other than HTTP 400 with
\* invalid_grant or invalid_token, the waiting getToken() calls fail with
\* the refresh-failed error and the refresh token is left unchanged in
\* memory and in the token file (isAuthenticated() keeps its value).
C4_TransientFailureKeepsToken ==
  [][ \A r \in DOMAIN inflight :
        ( /\ inflight[r].phase = "catch"
          /\ ~ ( /\ inflight[r].err.status = 400
                 /\ inflight[r].err.error \in {"invalid_grant", "invalid_token"} )
          /\ r \notin DOMAIN inflight' ) =>
          /\ refreshToken' = refreshToken
          /\ disk' = disk
          /\ (refreshToken # Null) = (refreshToken' # Null)
          /\ \A c \in Callers :
               callers[c] = Waiting(r) =>
                 callers'[c] = Done("RefreshFailed", Null, r)
    ]_vars

\* a refresh failed with the refresh-failed error and the manager is still
\* authenticated with the token on disk
C4_Witness ==
  /\ DOMAIN inflight = {}
  /\ refreshToken # Null
  /\ disk = refreshToken
  /\ \E c \in Callers : callers[c].kind = "RefreshFailed"

\* C5: when a successful refresh response carries a refresh_token that
\* differs from the current one, it replaces the refresh token in memory and
\* in the token file, otherwise both are unchanged; every refresh posts the
\* refresh token stored at that moment, never one that a rotation replaced.
C5_Rotation ==
  [][ /\ \A r \in DOMAIN inflight :
           (inflight[r].phase = "rotate" /\ r \notin DOMAIN inflight') =>
             LET rt == inflight[r].resp.refresh_token IN
               IF rt # Null /\ rt # refreshToken
               THEN refreshToken' = rt /\ disk' = rt
               ELSE refreshToken' = refreshToken /\ disk' = disk
      /\ \A r \in DOMAIN inflight :
           ( /\ inflight[r].phase = "discovery"
             /\ r \in DOMAIN inflight'
             /\ inflight'[r].phase = "post" ) =>
             /\ inflight'[r].sent = refreshToken
             /\ inflight'[r].sent \notin superseded
    ]_vars

\* after a rotation, a later refresh has posted the new token
C5_Witness ==
  /\ superseded # {}
  /\ refreshToken \notin superseded
  /\ disk = refreshToken
  /\ \E r \in DOMAIN inflight :
       inflight[r].phase = "post" /\ inflight[r].sent = refreshToken

\* C6: getToken() with a refresh token present returns the cached access
\* token, with no network call, if and only if a cached access token exists
\* and its expiry is more than 300 seconds away; in every other case it
\* starts a refresh (none pending) or joins the pending one.
C6_CacheMargin ==
  [][ \A c \in Callers :
        ( /\ callers[c].st # "waiting"
          /\ callers'[c] # callers[c]
          /\ refreshToken # Null ) =>
          IF /\ accessToken # Null
             /\ tokenExpiry # Null
             /\ tokenExpiry - now > 300 * 1000
          THEN /\ callers'[c] = Done("token", accessToken, 0)
               /\ UNCHANGED <<inflight, started, refreshPromise>>
          ELSE /\ callers'[c].st = "waiting"
               /\ callers'[c].rid \in DOMAIN inflight'
               /\ callers'[c].rid = refreshPromise'
               /\ IF DOMAIN inflight = {}
                  THEN started' = started + 1
                  ELSE started' = started /\ inflight' = inflight
    ]_vars

\* one caller was served from the cache 300.001 s or more before expiry, and
\* later, exactly 300 s before expiry, the other caller had to start a refresh
C6_Witness ==
  /\ accessToken # Null
  /\ tokenExpiry - now = 300 * 1000
  /\ \E c, d \in Callers :
       /\ callers[c] = Done("token", accessToken, 0)
       /\ callers[d].st = "waiting"

\* C7: getToken() called while no refresh token is stored fails with the
\* not-authenticated error, performs no network call and changes no token
\* state, whether or not a refresh is in flight.
C7_NotAuthenticated ==
  [][ \A c \in Callers :
        ( /\ callers[c].st # "waiting"
          /\ callers'[c] # callers[c]
          /\ refreshToken = Null ) =>
          /\ callers'[c] = Done("NotAuthenticated", Null, 0)
          /\ UNCHANGED <<refreshToken, accessToken, tokenExpiry,
                         refreshPromise, disk, inflight, started>>
    ]_vars

\* a caller was refused while the refresh another caller waits for is pending
C7_Witness ==
  /\ refreshToken = Null
  /\ DOMAIN inflight # {}
  /\ \E c, d \in Callers :
       /\ callers[c] = Done("NotAuthenticated", Null, 0)
       /\ callers[d].st = "waiting"

\* C8: whenever a getToken() caller obtains an access token, no token
\* response is left half-handled: if the response that delivered the cached
\* access token carried a new refresh token, saveRefreshToken() has already
\* been called with it.
C8_PersistBeforeExposure ==
  [][ (\E c \in Callers :
         callers'[c] # callers[c] /\ callers'[c].kind = "token") =>
        \A r \in DOMAIN inflight' :
          ~ ( /\ inflight'[r].phase = "rotate"
              /\ accessToken' = inflight'[r].resp.access_token
              /\ inflight'[r].resp.refresh_token # Null
              /\ inflight'[r].resp.refresh_token # refreshToken'
              /\ inflight'[r].resp.refresh_token \notin saveLog' )
    ]_vars

\* a refresh rotated the refresh token, saved it, and its waiter holds the
\* access token of the same response
C8_Witness ==
  /\ superseded # {}
  /\ refreshToken \in saveLog
  /\ disk = refreshToken
  /\ \E c \in Callers :
       /\ callers[c].kind = "token"
       /\ callers[c].rid # 0
       /\ callers[c].tok = accessToken

\* =============================================================== PKCE ====

\* C9: once a callback has looked up and deleted the session of a state,
\* every later callback with that state starts no token exchange, and if it
\* carries a code and no error parameter it is answered with the
\* invalid-or-expired-state error, also while the first exchange is pending.
C9_SessionConsumedOnce ==
  [][ nCallbacks' = nCallbacks + 1 =>
        \A s \in consumed :
          /\ ~ ( /\ nCallbacks' \in DOMAIN callbacks'
                 /\ callbacks'[nCallbacks'].state = s )
          /\ (reply'.id = nCallbacks' /\ reply'.state = s) =>
               /\ callbacks' = callbacks
               /\ reply'.status \in
                    {"OAuthError", "MissingParam", "InvalidOrExpiredState"}
               /\ (reply'.code /\ ~reply'.error) =>
                    reply'.status = "InvalidOrExpiredState"
    ]_vars

\* the second callback with the same state was refused while the exchange of
\* the first was still pending
C9_Witness ==
  /\ nCallbacks = 2
  /\ 1 \in DOMAIN callbacks
  /\ reply.id = 2
  /\ reply.state = callbacks[1].state
  /\ reply.code
  /\ ~reply.error
  /\ reply.status = "InvalidOrExpiredState"

\* C10: a callback that presents, with a code and no error parameter, the
\* state of a session created more than 10 minutes earlier is answered with
\* the invalid-or-expired-state error.
C10_ExpiredSessionRefused ==
  [][ nCallbacks' = nCallbacks + 1 =>
        \A s \in DOMAIN pkceStates :
          now - pkceStates[s].created_at > 10 * 60 * 1000 =>
            /\ ~ ( /\ nCallbacks' \in DOMAIN callbacks'
                   /\ callbacks'[nCallbacks'].state = s )
            /\ ( /\ reply'.id = nCallbacks'
                 /\ reply'.state = s
                 /\ reply'.code
                 /\ ~reply'.error ) =>
                 reply'.status = "InvalidOrExpiredState"
    ]_vars

\* ==================================================== StreamTranscoder ====
\* the lines read are text deltas, then a delta with finish_reason "stop",
\* then "[DONE]"
IsTextDelta(line) ==
  /\ line.kind = "data"
  /\ line.content # << >>
  /\ line.tool_calls = NoToolCalls
  /\ line.finish_reason = ""

IsTextStopDone(lines) ==
  /\ Len(lines) >= 3
  /\ \A i \in 1..(Len(lines) - 2) : IsTextDelta(lines[i])
  /\ lines[Len(lines) - 1].kind = "data"
  /\ lines[Len(lines) - 1].finish_reason = "stop"
  /\ lines[Len(lines) - 1].content = << >>
  /\ lines[Len(lines) - 1].tool_calls = NoToolCalls
  /\ lines[Len(lines)].kind = "done"

\* an event without its block index and token count
Outline(event) == [event EXCEPT !.index = -1, !.output_tokens = -1]
Outlines(events) == [i \in 1..Len(events) |-> Outline(events[i])]

TextStopDoneEvents(lines) ==
  <<message_start, content_block_start(0, "text", "", "")>>
  \o [i \in 1..(Len(lines) - 2) |-> text_delta(0, lines[i].content)]
  \o <<content_block_stop(0), message_delta("end_turn", 0), message_stop>>

\* C11: when the lines read are one or more text deltas, a delta with
\* finish_reason "stop" and "[DONE]", the events emitted are exactly
\* message_start, content_block_start(text), one text delta per upstream
\* text delta in order, content_block_stop, message_delta(end_turn),
\* message_stop.
C11_TextStopDone ==
  (phase = "ended" /\ streamRequested /\ IsTextStopDone(seen)) =>
    Outlines(emitted) = Outlines(TextStopDoneEvents(seen))

\* C12: at most one message_stop is emitted and no event follows it.
C12_MessageStopTerminal ==
  \A i \in 1..Len(emitted) :
    emitted[i].type = "message_stop" => i = Len(emitted)

RECURSIVE Concat(_)
Concat(texts) ==
  IF texts = << >> THEN << >> ELSE Head(texts) \o Concat(Tail(texts))

\* the text the client has been sent, and the text the upstream deltas read
\* so far carried
TextOut(events) ==
  Concat([i \in 1..Len(events) |->
            IF events[i].block = "text_delta" THEN events[i].text
            ELSE << >>])
TextIn(lines) ==
  Concat([i \in 1..Len(lines) |->
            IF lines[i].kind = "data" THEN lines[i].content ELSE << >>])

\* C13: the concatenation of the text of the emitted text_delta events is
\* the concatenation of every delta.content read, in order, including a
\* content that arrives in the same delta as tool-call fragments.
C13_TextPreserved ==
  streamRequested => TextOut(emitted) = TextIn(seen)

\* a delta that starts a tool call, and one that only carries arguments
IsToolStart(line) ==
  /\ line.kind = "data"
  /\ Len(line.tool_calls) = 1
  /\ line.tool_calls[1].id # ""
  /\ line.finish_reason = ""

IsArgumentsOnly(line) ==
  /\ line.kind = "data"
  /\ Len(line.tool_calls) = 1
  /\ line.tool_calls[1].id = ""
  /\ line.tool_calls[1].arguments # ""
  /\ line.finish_reason = ""

\* the lines read end with a tool start at position k followed by
\* arguments-only deltas
IsToolCallTail(lines, k) ==
  /\ k \in 1..Len(lines)
  /\ IsToolStart(lines[k])
  /\ \A i \in (k + 1)..Len(lines) : IsArgumentsOnly(lines[i])

ToolCallEvents(lines, k, index) ==
  <<content_block_start(index, "tool_use", lines[k].tool_calls[1].id,
                        lines[k].tool_calls[1].name)>>
  \o (IF lines[k].tool_calls[1].arguments = "" THEN << >>
      ELSE <<input_json_delta(index, lines[k].tool_calls[1].arguments)>>)
  \o [i \in 1..(Len(lines) - k) |->
        input_json_delta(index, lines[k + i].tool_calls[1].arguments)]

EventsTail(events, n) == SubSeq(events, Len(events) - n + 1, Len(events))

\* C14: a tool call whose id arrives in one delta and whose arguments follow
\* in consecutive deltas is emitted as one content_block_start(tool_use) with
\* its id and name, then one input_json_delta per fragment, in order and
\* verbatim, all at one block index.
C14_ToolCallReassembled ==
  streamRequested =>
    \A k \in 1..Len(seen) :
      IsToolCallTail(seen, k) =>
        LET expected == ToolCallEvents(seen, k, contentBlockIndex)
        IN  /\ Len(emitted) >= Len(expected)
            /\ EventsTail(emitted, Len(expected)) = expected

\* the id arrived in the first delta, the arguments "x" and "y" in the next
\* two, and the three events are out
C14_Witness ==
  /\ streamRequested
  /\ Len(seen) = 3
  /\ IsToolCallTail(seen, 1)
  /\ seen[2].tool_calls[1].arguments = "x"
  /\ seen[3].tool_calls[1].arguments = "y"
  /\ EventsTail(emitted, 2) =
       <<input_json_delta(0, "x"), input_json_delta(0, "y")>>

\* C15: in the emitted events a content_block_start follows an earlier one
\* only after the earlier block got its content_block_stop, and carries a
\* strictly greater index.
C15_BlockFraming ==
  \A i, j \in 1..Len(emitted) :
    ( /\ i < j
      /\ emitted[i].type = "content_block_start"
      /\ emitted[j].type = "content_block_start" ) =>
        /\ emitted[j].index > emitted[i].index
        /\ \E k \in (i + 1)..(j - 1) :
             emitted[k] = content_block_stop(emitted[i].index)

\* the finish reasons read, and the stop reasons sent, in order
FinishReasons(lines) ==
  LET finishing ==
        SelectSeq(lines, LAMBDA l : l.kind = "data" /\ l.finish_reason # "")
  IN  [i \in 1..Len(finishing) |-> finishing[i].finish_reason]

StopReasons(events) ==
  LET deltas == SelectSeq(events, LAMBDA e : e.type = "message_delta")
  IN  [i \in 1..Len(deltas) |-> deltas[i].stop_reason]

Translated(finish_reason) ==
  CASE finish_reason = "tool_calls" -> "tool_use"
    [] finish_reason = "stop" -> "end_turn"
    [] OTHER -> finish_reason

\* C16: the stop_reason of a message_delta is "tool_use" for the finish
\* reason "tool_calls", "end_turn" for "stop", and the finish reason itself
\* otherwise.
C16_StopReasonTranslated ==
  streamRequested =>
    StopReasons(emitted) =
      [i \in 1..Len(FinishReasons(seen)) |->
         Translated(FinishReasons(seen)[i])]

\* "tool_calls", "stop" and "length" have each been read and translated
C16_Witness ==
  /\ streamRequested
  /\ {"tool_calls", "stop", "length"} =
       {FinishReasons(seen)[i] : i \in 1..Len(FinishReasons(seen))}
  /\ {"tool_use", "end_turn", "length"} =
       {StopReasons(emitted)[i] : i \in 1..Len(StopReasons(emitted))}

\* completion_tokens of the latest usage payload among the lines, 0 if none
RECURSIVE LatestCompletionTokens(_)
LatestCompletionTokens(lines) ==
  IF lines = << >> THEN 0
  ELSE IF Last(lines).kind = "data" /\ Last(lines).usage # NoUsage
    THEN Last(lines).usage[1].completion_tokens
  ELSE LatestCompletionTokens(AllButLast(lines))

\* C17: the output_tokens of a message_delta is the completion token count
\* of the latest usage payload read up to then, in the same line as the
\* finish reason or in an earlier one, and 0 only if there was none.
C17_OutputTokensLatestUsage ==
  ( /\ streamRequested
    /\ seen # << >>
    /\ Last(seen).kind = "data"
    /\ Last(seen).finish_reason # "" ) =>
      /\ Len(emitted) >= 2
      /\ emitted[Len(emitted) - 1].type = "message_delta"
      /\ emitted[Len(emitted) - 1].output_tokens =
           LatestCompletionTokens(seen)

\* the generator as it would be had only `lines` been read
Transcoded(lines) ==
  streamLines(Generator(0, FALSE, NoToolCall, <<message_start>>, FALSE),
              lines)

Parseable(lines) == SelectSeq(lines, LAMBDA l : l.kind # "bad")

\* C18: unparseable data lines change nothing: the events emitted, the
\* generator's locals and whether it has returned are those of the same
\* lines without the unparseable ones.
C18_UnparseableSkipped ==
  (streamRequested /\ phase # "idle") =>
    LET g == Transcoded(Parseable(seen))
    IN  /\ emitted = g.out
        /\ contentBlockIndex = g.contentBlockIndex
        /\ textBlockStarted = g.textBlockStarted
        /\ currentToolCall = g.currentToolCall
        /\ g.returned => phase = "ended"
        /\ (phase = "ended" /\ ~g.returned) => wire = << >>

\* an unparseable line was read between two text deltas and both deltas
\* are out
C18_Witness ==
  /\ streamRequested
  /\ Len(seen) = 3
  /\ IsTextDelta(seen[1])
  /\ seen[2].kind = "bad"
  /\ IsTextDelta(seen[3])
  /\ Len(emitted) = 4
  /\ emitted[4] = text_delta(0, seen[3].content)

\* the lines whose bytes, newline included, have all been carried by chunks
NewLinesIn(bytes) == Len(SelectSeq(bytes, LAMBDA u : u = NewLine))
DeliveredLines == SubSeq(sent, 1, Len(sent) - NewLinesIn(wire))

\* C19: the events emitted depend only on the bytes delivered, not on how
\* they were cut into chunks: they are the events for the complete lines
\* among those bytes, whatever the chunks were.
C19_ChunkingIrrelevant ==
  (streamRequested /\ phase # "idle") =>
    emitted = Transcoded(DeliveredLines).out

\* ============================================== non-streaming response ====
\* the lines before the first "[DONE]"
RECURSIVE BeforeDone(_)
BeforeDone(lines) ==
  IF lines = << >> \/ Head(lines).kind = "done" THEN << >>
  ELSE <<Head(lines)>> \o BeforeDone(Tail(lines))

RECURSIVE LatestPromptTokens(_)
LatestPromptTokens(lines) ==
  IF lines = << >> THEN 0
  ELSE IF Last(lines).kind = "data" /\ Last(lines).usage # NoUsage
    THEN Last(lines).usage[1].prompt_tokens
  ELSE LatestPromptTokens(AllButLast(lines))

\* C20: the aggregate message carries the concatenation of every
\* delta.content read before "[DONE]" and the counts of the latest usage
\* payload before "[DONE]"; no line after "[DONE]", in the same or a later
\* chunk, affects it.
C20_AggregateUpToDone ==
  ( /\ ~streamRequested
    /\ response # NoResponse
    /\ \E i \in 1..Len(seen) : seen[i].kind = "done" ) =>
      /\ response[1].text = TextIn(BeforeDone(seen))
      /\ response[1].input_tokens = LatestPromptTokens(BeforeDone(seen))
      /\ response[1].output_tokens = LatestCompletionTokens(BeforeDone(seen))

\* C21: for lines with one finish_reason, read before any "[DONE]", the
\* stop_reason of the aggregate message is the stop_reason of the
\* message_delta the streaming generator emits for the same lines.
C21_StopReasonAgrees ==
  ( /\ ~streamRequested
    /\ response # NoResponse
    /\ Len(FinishReasons(seen)) = 1
    /\ Len(FinishReasons(BeforeDone(seen))) = 1 ) =>
      response[1].stop_reason = StopReasons(Transcoded(seen).out)[1]

\* C22: once the client of a streaming request has disconnected, no further
\* upstream chunk is read or transcoded for it.
C22_DisconnectStopsReading ==
  [][ (streamRequested /\ ~clientConnected) =>
        /\ Len(wire') >= Len(wire)
        /\ buffer' = buffer
        /\ seen' = seen
        /\ emitted' = emitted
    ]_vars

\* ====================================================== the API routes ====
\* the model name the route hands to resolveModelMapping()
RequestedModel ==
  IF httpRequest.endpoint = "/v1/messages" /\ httpRequest.body.model = NoModel
  THEN DefaultAnthropicModel
  ELSE httpRequest.body.model

Resolving ==
  /\ httpRequest.outcome = "token"
  /\ httpRequest.endpoint \in
       {"/v1/messages", "/v1/chat/completions", "/v1/responses"}

\* C23: a name with the "oca/" prefix is returned unchanged and without
\* reasoning effort even if the mapping table has an entry for it; otherwise
\* an entry of the table yields its target, and its reasoning_effort when it
\* is a {target, reasoning_effort} pair; otherwise the configured default
\* model is returned, or "oca/gpt-4.1" when none is configured.
C23_ResolvePrecedence ==
  Resolving =>
    LET entry == configFile.model_mapping[RequestedModel]
    IN  IF RequestedModel.ns = "oca"
        THEN resolved = Resolved(RequestedModel, Absent)
        ELSE IF entry # NoMapping
          THEN /\ resolved.model = entry[1].target
               /\ resolved.reasoning_effort =
                    IF entry[1].type = "object"
                    THEN entry[1].reasoning_effort ELSE Absent
        ELSE resolved.model =
               IF configFile.default_model # NoModel
               THEN configFile.default_model ELSE Model("oca", "gpt-4.1")

\* "oca/gpt-4.1" was requested while the table maps it to another model with
\* a reasoning effort, and it came back unchanged
C23_Witness ==
  /\ Resolving
  /\ RequestedModel = Model("oca", "gpt-4.1")
  /\ configFile.model_mapping[RequestedModel] =
       ObjectMapping(Model("oca", "gpt-5"), "high")
  /\ resolved = Resolved(Model("oca", "gpt-4.1"), Absent)

\* C24: for a name without the prefix and without an entry, the resolution
\* carries the default_reasoning_effort of the configuration file, if it
\* sets one.
C24_DefaultReasoningEffort ==
  ( /\ Resolving
    /\ RequestedModel.ns # "oca"
    /\ configFile.model_mapping[RequestedModel] = NoMapping
    /\ configFile.default_reasoning_effort # Absent ) =>
      resolved.reasoning_effort = configFile.default_reasoning_effort

OnMessages ==
  httpRequest.outcome = "token" /\ httpRequest.endpoint = "/v1/messages"

\* C25: the max_tokens of the upstream request never exceeds 16384: a
\* positive max_tokens m gives min(m, 16384), an absent one gives none.
C25_MaxTokensCapped ==
  OnMessages =>
    LET m == httpRequest.body.max_tokens
    IN  /\ upstreamRequest.max_tokens <= 16384
        /\ m > 0 => upstreamRequest.max_tokens =
                      (IF m <= 16384 THEN m ELSE 16384)
        /\ m = 0 => upstreamRequest.max_tokens = 0

\* max_tokens 50000 went out as 16384
C25_Witness ==
  /\ OnMessages
  /\ httpRequest.body.max_tokens = 50000
  /\ upstreamRequest.max_tokens = 16384

\* C26: on every route that obtains a token, "not authenticated" and
\* "refresh token rejected" are answered with 401 and a transient refresh
\* failure with 500.
C26_TokenErrorStatus ==
  /\ httpRequest.outcome \in {"NotAuthenticated", "AuthExpired"} =>
       httpStatus = 401
  /\ httpRequest.outcome = "RefreshFailed" => httpStatus = 500

\* an input message without text, tool call or tool result
IsEmptyMessage(msg) ==
  IF msg.content.type = "string" THEN msg.content.text = << >>
  ELSE \A i \in 1..Len(msg.content.blocks) :
         /\ msg.content.blocks[i].type = "text"
         /\ msg.content.blocks[i].text = << >>

\* C27: an input message gives an entry of the upstream messages only if it
\* has non-empty text or a tool call: a message whose content is an empty
\* string, an empty array or only empty text blocks gives none.
C27_EmptyMessagesDropped ==
  OnMessages =>
    /\ upstreamRequest.messages =
         convertMessages(SelectSeq(httpRequest.body.messages,
                                   LAMBDA msg : ~IsEmptyMessage(msg)))
    /\ \A i \in 1..Len(upstreamRequest.messages) :
         \/ upstreamRequest.messages[i].role = "tool"
         \/ upstreamRequest.messages[i].content # << >>
         \/ upstreamRequest.messages[i].tool_calls # << >>

\* C28: a tool_choice is translated whether or not the request has a tools
\* list: {type: "tool", name} to the function of that name, "auto" to "auto",
\* "any" to "required".
C28_ToolChoiceTranslated ==
  OnMessages =>
    LET tc == httpRequest.body.tool_choice
    IN  /\ tc.kind = "tool" =>
             upstreamRequest.tool_choice = ToolChoice("function", tc.name)
        /\ tc.kind = "auto" =>
             upstreamRequest.tool_choice = ToolChoice("auto", Absent)
        /\ tc.kind = "any" =>
             upstreamRequest.tool_choice = ToolChoice("required", Absent)

\* C29: the upstream request carries the client's reasoning_effort if the
\* request has one, else the resolved one if there is one, on /v1/messages
\* as on the OpenAI routes.
C29_ClientReasoningEffortWins ==
  Resolving =>
    IF httpRequest.body.reasoning_effort # Absent
    THEN upstreamRequest.reasoning_effort = httpRequest.body.reasoning_effort
    ELSE resolved.reasoning_effort # Absent =>
           upstreamRequest.reasoning_effort = resolved.reasoning_effort

\* ================================================ the in-flight slot ====
\* C30: the slot of the in-flight refresh is emptied only by the step in
\* which that refresh settles, and always by that step, whether it succeeds
\* or fails; a getToken() that then finds a refresh token and no valid cached
\* token starts a new refresh: it neither waits for the settled one nor
\* completes with its outcome.
C30_SlotClearedOnSettle ==
  /\ [](/\ refreshPromise = Null <=> DOMAIN inflight = {}
        /\ refreshPromise # Null => refreshPromise \in DOMAIN inflight)
  /\ [][ /\ (refreshPromise # Null /\ refreshPromise' # refreshPromise) =>
              /\ refreshPromise' = Null
              /\ refreshPromise \in DOMAIN inflight \ DOMAIN inflight'
         /\ \A r \in DOMAIN inflight \ DOMAIN inflight' :
              refreshPromise = r /\ refreshPromise' = Null
         /\ \A c \in Callers :
              ( /\ callers[c].st # "waiting"
                /\ callers'[c] # callers[c]
                /\ refreshPromise = Null
                /\ ~MissingRefreshToken
                /\ ~CacheValid ) =>
                  /\ callers'[c] = Waiting(started + 1)
                  /\ started' = started + 1
                  /\ refreshPromise' = started + 1
                  /\ started + 1 \in DOMAIN inflight' \ DOMAIN inflight
                  /\ inflight'[started + 1].phase = "discovery"
       ]_vars

\* the first refresh failed for the caller that awaited it; a getToken()
\* called after that waits for the second refresh, which is in the slot
C30_Witness ==
  /\ started = 2
  /\ refreshPromise = 2
  /\ DOMAIN inflight = {2}
  /\ \E c, d \in Callers :
       /\ callers[c] = Done("RefreshFailed", Null, 1)
       /\ callers[d] = Waiting(2)

\* ============================================ logout, login and refresh ====
\* C31: once clearAuth() has run, isAuthenticated() is false and neither the
\* memory nor the token file holds a refresh token until setRefreshToken()
\* is called, also when a refresh that was in flight completes afterwards.
C31_LogoutSticky ==
  (TurnFree /\ cleared = "logout") =>
    /\ ~isAuthenticated
    /\ refreshToken = Null
    /\ disk = Null

\* C32: when a refresh that was started with one refresh token settles after
\* setRefreshToken() has stored another one, the stored refresh token stays
\* the newer one, and the access token of that refresh is not the cached one
\* that later getToken() calls return.
C32_NewerLoginSurvives ==
  [][ \A r \in DOMAIN inflight \ DOMAIN inflight' :
        ( /\ inflight[r].sent # Null
          /\ refreshToken # Null
          /\ refreshToken # inflight[r].sent ) =>
            /\ refreshToken' = refreshToken
            /\ disk' = refreshToken
            /\ accessToken' # r
    ]_vars

\* C33: between the turns of the event loop, an access token or an expiry is
\* cached only if a refresh token is present.
C33_AccessTokenIsCache ==
  (TurnFree /\ (accessToken # Null \/ tokenExpiry # Null)) =>
    refreshToken # Null

\* C34: between the turns of the event loop, the token file holds the
\* in-memory refresh token, or does not exist when there is none; what the
\* constructor would load gives the same isAuthenticated().
C34_DiskMatchesMemory ==
  TurnFree =>
    /\ disk = refreshToken
    /\ (loadRefreshToken # Null) <=> isAuthenticated

\* a refresh rotated the refresh token, and a logout removed it
C34_Witness ==
  /\ TurnFree
  /\ superseded # {}
  /\ cleared = "logout"
  /\ refreshToken = Null
  /\ disk = Null

\* ================================================ blocks of the stream ====
\* the block of index idx is open after the first n events
IsOpenAfter(events, n, idx) ==
  \E j \in 1..n :
    /\ events[j].type = "content_block_start"
    /\ events[j].index = idx
    /\ \A k \in (j + 1)..n :
         ~(events[k].type = "content_block_stop" /\ events[k].index = idx)

\* C35: every content_block_stop carries the index of a content_block_start
\* emitted before it and not stopped since; a finish_reason that arrives
\* while no block has been opened gives no content_block_stop.
C35_StopClosesOpenBlock ==
  streamRequested =>
    \A i \in 1..Len(emitted) :
      emitted[i].type = "content_block_stop" =>
        IsOpenAfter(emitted, i - 1, emitted[i].index)

\* C36: when the upstream stream has ended, with or without "[DONE]", with
\* or without a finish_reason, with or without a newline after its last
\* line, the last event emitted is message_stop and no block is open.
C36_StreamTerminates ==
  (streamRequested /\ phase = "ended") =>
    /\ emitted # << >>
    /\ emitted[Len(emitted)].type = "message_stop"
    /\ \A j \in 1..Len(emitted) :
         emitted[j].type = "content_block_start" =>
           ~IsOpenAfter(emitted, Len(emitted), emitted[j].index)

\* ===================================================== OAuth callback ====
\* C37: a callback whose token exchange fails or whose token response has no
\* refresh token is answered with a failure; none of its steps changes the
\* refresh token, the cached access token or the token file; its session
\* stays removed, and a later callback with the same state is refused.
C37_FailedCallbackChangesNothing ==
  [][ /\ ( /\ callbacks' # callbacks \/ reply' # reply
           /\ ~(reply' # reply /\ reply'.status = "ok") ) =>
             /\ refreshToken' = refreshToken
             /\ accessToken' = accessToken
             /\ tokenExpiry' = tokenExpiry
             /\ disk' = disk
      /\ ( /\ reply' # reply
           /\ reply'.status \in {"ExchangeFailed", "NoRefreshToken"} ) =>
             /\ reply'.state \in consumed'
             /\ reply'.state \notin DOMAIN pkceStates'
      /\ \A j \in DOMAIN callbacks' \ DOMAIN callbacks :
           callbacks'[j].state \notin consumed
      /\ ( /\ nCallbacks' # nCallbacks
           /\ reply' # reply
           /\ reply'.code /\ ~reply'.error
           /\ reply'.state \in consumed ) =>
             reply'.status = "InvalidOrExpiredState"
    ]_vars

\* the token response of a callback had no refresh token, while a refresh
\* token of an earlier login is stored
C37_Witness ==
  /\ reply.status = "NoRefreshToken"
  /\ refreshToken # Null
  /\ disk = refreshToken
  /\ reply.state \in consumed
  /\ reply.state \notin DOMAIN pkceStates

\* C38: consuming one session, a rejected callback and the creation of a
\* session leave every other session that is less than 10 minutes old in
\* the map, unchanged; a session leaves the map only by being consumed or by
\* being more than 10 minutes old when a session is created.
C38_SessionsIndependent ==
  [][ \A t \in DOMAIN pkceStates :
        /\ ( /\ now - pkceStates[t].created_at < PkceTtlMs
             /\ t \notin consumed' \ consumed ) =>
               /\ t \in DOMAIN pkceStates'
               /\ pkceStates'[t] = pkceStates[t]
        /\ ( /\ t \notin DOMAIN pkceStates'
             /\ t \notin consumed' \ consumed ) =>
               /\ now - pkceStates[t].created_at > PkceTtlMs
               /\ nextState' = nextState + 1
        /\ Cardinality(consumed' \ consumed) <= 1
    ]_vars

\* a session was swept when a later one was created, which is in the map
C38_Witness ==
  /\ \E s \in 1..(nextState - 1) : s \notin DOMAIN pkceStates \cup consumed
  /\ \E t \in DOMAIN pkceStates : now - pkceStates[t].created_at < PkceTtlMs

\* ================================================== configuration ====
\* C39: the mapping table and the default model that resolveModelMapping()
\* reads are those of the latest configuration written; a resolution gives
\* what that configuration prescribes; a save that fails changes neither
\* the file nor the table in use.
C39_ResolutionFollowsWrites ==
  /\ [](/\ proxyConfig.model_mapping = configFile.model_mapping
        /\ proxyConfig.default_model = configFile.default_model
        /\ Resolving =>
             LET entry == configFile.model_mapping[RequestedModel]
             IN  resolved.model =
                   IF RequestedModel.ns = "oca" THEN RequestedModel
                   ELSE IF entry # NoMapping THEN entry[1].target
                   ELSE IF configFile.default_model # NoModel
                     THEN configFile.default_model
                   ELSE DEFAULT_OCA_MODEL)
  /\ [][ lastWrite' = "failed" =>
           (configFile' = configFile /\ proxyConfig' = proxyConfig) ]_vars

\* a write changed the configuration in use, and the request after it was
\* resolved through the new table
C39_Witness ==
  /\ lastWrite = "changed"
  /\ Resolving
  /\ RequestedModel = Model("", "gpt-4")
  /\ configFile.model_mapping[RequestedModel] =
       StringMapping(Model("oca", "gpt-5"))
  /\ resolved.model = Model("oca", "gpt-5")

\* C40: a request whose remote address is none of 127.0.0.1, ::1 and
\* ::ffff:127.0.0.1 is answered 403 and is not passed to a route, whatever
\* its headers.
C40_LocalhostOnly ==
  (remote # NoRemote /\ remote.ip \notin allowed) =>
    /\ httpStatus = 403
    /\ httpRequest.outcome = "forbidden"

====
